---- MODULE Spec2Model ----
(***************************************************************************)
(* MLPVariationalAutoEncoder (image_vae.py): construction, the             *)
(* encode / sample_encoding / decode / loss pipeline and the train loop.   *)
(*                                                                         *)
(* A tensor is modelled by its shape (a sequence of dimension sizes); a    *)
(* loss tensor additionally carries the value of its elements and the      *)
(* inputs and parameter version it was computed from.  TensorFlow calls    *)
(* are modelled by their shape rules: matmul, broadcasting,                *)
(* transposition, slicing, reduction over the last axis.                   *)
(***************************************************************************)
EXTENDS Integers, Sequences, FiniteSets, TLC

\* ------------------------------------------------------------------ bounds
MinDim == 0 - 1
MaxDim == 5
MaxRows == 3
MaxValRows == 2
MaxBatch == 2
MaxEpochs == 17

\* ------------------------------------------------- constants of the program
\* line 85: epoch_num > 15, train_loss / 32
EarlyStopAfter == 15
DivergenceDivisor == 32
\* lines 93-111: 28 x 28 images flattened, hidden_code_dim = 36
MainInputDim == 784
MainCodeDim == 36

ParamKeys ==
    {"enc_W0", "enc_b0", "enc_W1", "enc_b1", "enc_W2", "enc_b2",
     "dec_W0", "dec_b0", "dec_W1", "dec_b1", "dec_W2", "dec_b2"}

VARIABLES
    input_dim,    \* constructor argument
    code_dim,     \* constructor argument
    status,       \* "unconstructed" | "constructed" | "AssertionError" | "ValueError"
    params,       \* self._params: key -> [shape, updates]; empty domain = no store
    ret,          \* outcome of the last call of encode/sample_encoding/decode/loss
    pc,           \* position of train
    inputs,       \* shape of train's inputs
    val_inputs,   \* shape of train's val_inputs
    num_epochs,   \* train argument
    batch_size,   \* train argument
    epoch_num,    \* loop variable of line 77
    batch_num,    \* loop variable of line 78
    batches,      \* row intervals [lo, hi) trained on in the current epoch
    steps,        \* number of optimizer.apply_gradients calls so far
    train_loss,   \* line 81
    val_loss,     \* line 82
    reports,      \* number of report lines printed (line 83)
    last_report,  \* the last report line printed
    nan_seen      \* a loss computed during train contained NaN

vars == <<input_dim, code_dim, status, params, ret, pc, inputs, val_inputs,
          num_epochs, batch_size, epoch_num, batch_num, batches, steps,
          train_loss, val_loss, reports, last_report, nan_seen>>

modelVars == <<input_dim, code_dim, status, params>>
trainVars == <<pc, inputs, val_inputs, num_epochs, batch_size, epoch_num,
               batch_num, batches, steps, train_loss, val_loss, reports,
               last_report, nan_seen>>

\* ---------------------------------------------------------------- numbers
\* int(n / d) for d > 0: Python's int() truncates toward zero.
TruncDiv(n, d) == IF n >= 0 THEN n \div d ELSE 0 - ((0 - n) \div d)

Min(a, b) == IF a <= b THEN a ELSE b
Max(a, b) == IF a >= b THEN a ELSE b

\* ----------------------------------------------------------- constructor
\* line 19 with round() in place of int()
Hidden1DimRounded(i, c) == TruncDiv(4 * i - (i - c) + 2, 4)

\* line 19: int(input_dim - (input_dim - code_dim) / 4), the float being
\* (4*input_dim - (input_dim - code_dim)) / 4
Hidden1Dim(i, c) == TruncDiv(4 * i - (i - c), 4)

\* line 20: int(input_dim - 3 * (input_dim - code_dim) / 4)
Hidden2Dim(i, c) == TruncDiv(4 * i - 3 * (i - c), 4)

\* lines 21-34: the shape of each of the 12 tensors
ParamShapes(i, c) ==
    LET h1 == Hidden1Dim(i, c)
        h2 == Hidden2Dim(i, c)
    IN  [k \in ParamKeys |->
            CASE k = "enc_W0" -> <<h1, i>>
              [] k = "enc_b0" -> <<h1, 1>>
              [] k = "enc_W1" -> <<h2, h1>>
              [] k = "enc_b1" -> <<h2, 1>>
              [] k = "enc_W2" -> <<c * 2, h2>>
              [] k = "enc_b2" -> <<c * 2, 1>>
              [] k = "dec_W0" -> <<h2, c>>
              [] k = "dec_b0" -> <<h2, 1>>
              [] k = "dec_W1" -> <<h1, h2>>
              [] k = "dec_b1" -> <<h1, 1>>
              [] k = "dec_W2" -> <<i, h1>>
              [] k = "dec_b2" -> <<i, 1>>]

NoParams == [k \in {} |-> 0]

\* tf.Variable(tf.random.normal(shape)) / tf.Variable(tf.zeros(shape)), never updated yet
FreshParams(i, c) ==
    [k \in ParamKeys |-> [shape |-> ParamShapes(i, c)[k], updates |-> 0]]

\* tf.random.normal and tf.zeros reject a negative dimension
ValidShape(s) == \A d \in 1..Len(s) : s[d] >= 0

\* line 18 with <= in place of <
CtorAssertOffByOne(i, c) == c <= i

\* line 18
CtorAssert(i, c) == c < i

\* __init__: the assertion, then the dictionary of 12 variables
ConstructOutcome(i, c) ==
    IF ~CtorAssert(i, c)
    THEN [status |-> "AssertionError", params |-> NoParams]
    ELSE IF \E k \in ParamKeys : ~ValidShape(ParamShapes(i, c)[k])
         THEN [status |-> "ValueError", params |-> NoParams]
         ELSE [status |-> "constructed", params |-> FreshParams(i, c)]

\* ------------------------------------------------------------ shape rules
Ok(s) == [status |-> "ok", shape |-> s]
Err(kind) == [status |-> kind, shape |-> <<>>]

\* tf.matmul(a, b) of two rank-2 tensors; transpose_b=True transposes b first
MatMul(a, b, transpose_b) ==
    LET bb == IF transpose_b THEN <<b[2], b[1]>> ELSE b
    IN  IF a[2] = bb[1] THEN Ok(<<a[1], bb[2]>>) ELSE Err("InvalidArgumentError")

\* the size of the k-th axis counted from the last one; a missing axis
\* broadcasts as size 1
AxisFromLast(s, k) == IF k <= Len(s) THEN s[Len(s) + 1 - k] ELSE 1

\* broadcasting of a binary elementwise operator (+, -, >, /): shapes are
\* aligned from the last axis, and two sizes agree when equal or when one is 1
Broadcast(a, b) ==
    LET r == Max(Len(a), Len(b))
    IN  IF \A k \in 1..r : \/ AxisFromLast(a, k) = AxisFromLast(b, k)
                            \/ AxisFromLast(a, k) = 1
                            \/ AxisFromLast(b, k) = 1
        THEN Ok([j \in 1..r |->
                   IF AxisFromLast(a, r + 1 - j) = 1
                   THEN AxisFromLast(b, r + 1 - j)
                   ELSE AxisFromLast(a, r + 1 - j)])
        ELSE Err("InvalidArgumentError")

\* the sum of a matmul outcome and a bias
AddBias(m, b) == IF m.status = "ok" THEN Broadcast(m.shape, b) ELSE m

\* matmul(W, x) + b
Layer(W, b, x, transpose_x) == AddBias(MatMul(W, x, transpose_x), b)

\* a layer applied to the outcome of the previous one: an exception raised
\* there propagates
NextLayer(W, b, r) == IF r.status = "ok" THEN Layer(W, b, r.shape, FALSE) ELSE r

Transpose(s) == <<s[2], s[1]>>

\* t[:, lo:hi] of a rank-2 tensor: Python clamps the slice to the axis
SliceColumns(s, lo, hi) ==
    LET l == Min(Max(lo, 0), s[2])
        h == Min(Max(hi, 0), s[2])
    IN  <<s[1], Max(h - l, 0)>>

\* t[lo:hi] along the first axis, as the row interval actually taken
SliceRows(n, lo, hi) ==
    LET l == Min(Max(lo, 0), n)
        h == Min(Max(hi, 0), n)
    IN  <<l, Max(h, l)>>

\* a reduction over the last axis (keras mean_squared_error and
\* kullback_leibler_divergence both reduce axis=-1 only)
ReduceLastAxis(s) == SubSeq(s, 1, Len(s) - 1)

\* tf.reduce_mean without an axis: every axis is reduced
ReduceAll(s) == <<>>

\* bool(tensor) is defined for a tensor of exactly one element
HasOneElement(s) == \A k \in 1..Len(s) : s[k] = 1

\* ------------------------------------------------------------------ encode
\* lines 41-46: the transposition and the split into (mean, stddev)
SplitEncoding(r) ==
    IF r.status # "ok"
    THEN [status |-> r.status, mean |-> <<>>, stddev |-> <<>>]
    ELSE [status |-> "ok",
          mean |-> SliceColumns(Transpose(r.shape), 0,
                                TruncDiv(Transpose(r.shape)[2], 2)),
          stddev |-> SliceColumns(Transpose(r.shape),
                                  TruncDiv(Transpose(r.shape)[2], 2),
                                  Transpose(r.shape)[2])]

\* lines 36-46; the result is the pair of shapes (mean, stddev)
Encode(p, x) ==
    SplitEncoding(
        NextLayer(p["enc_W2"].shape, p["enc_b2"].shape,
            NextLayer(p["enc_W1"].shape, p["enc_b1"].shape,
                Layer(p["enc_W0"].shape, p["enc_b0"].shape, x, TRUE))))

\* --------------------------------------------------------- sample_encoding
\* line 49 comparing shape[0] only
SampleAssertBatchOnly(mean, stddev) == mean[1] = stddev[1]

\* line 49
SampleAssert(mean, stddev) == mean = stddev

\* lines 48-50: tf.random.normal((mean.shape[0], mean.shape[1]), mean, stddev)
SampleEncoding(mean, stddev) ==
    IF ~SampleAssert(mean, stddev) THEN Err("AssertionError")
    ELSE Broadcast(<<mean[1], mean[2]>>, mean)

\* ------------------------------------------------------------------ decode
\* line 57: the transposition of the last layer's outcome
TransposeOutcome(r) == IF r.status = "ok" THEN Ok(Transpose(r.shape)) ELSE r

\* lines 52-59
Decode(p, z) ==
    TransposeOutcome(
        NextLayer(p["dec_W2"].shape, p["dec_b2"].shape,
            NextLayer(p["dec_W1"].shape, p["dec_b1"].shape,
                Layer(p["dec_W0"].shape, p["dec_b0"].shape, z, TRUE))))

\* -------------------------------------------------------------------- loss
\* a reduction of an elementwise combination of two tensors
Reduced(b, all) ==
    IF b.status # "ok" THEN b
    ELSE IF all THEN Ok(ReduceAll(ReduceLastAxis(b.shape)))
    ELSE Ok(ReduceLastAxis(b.shape))

\* lines 63-64: tf.losses.kullback_leibler_divergence computes one value per
\* coordinate of (mean, stddev) and sums them over the last axis only; the
\* code reduces its result no further
KLDivergence(mean, stddev) == Reduced(Broadcast(mean, stddev), FALSE)

\* line 67: tf.reduce_mean(tf.losses.mean_squared_error(inputs, decoded))
MeanSquareError(x, decoded) == Reduced(Broadcast(x, decoded), TRUE)

\* line 67 on the outcome of decode
ReconstructionError(x, decoded) ==
    IF decoded.status # "ok" THEN decoded ELSE MeanSquareError(x, decoded.shape)

\* lines 65-67 on the outcome `encoded` of sample_encoding
Reconstruction(p, x, encoded) ==
    IF encoded.status # "ok" THEN encoded
    ELSE ReconstructionError(x, Decode(p, encoded.shape))

\* line 68: (3 * mean_square_error + kl_divergence) / 4
Combined(kl_divergence, mean_square_error) ==
    IF kl_divergence.status # "ok" THEN kl_divergence
    ELSE IF mean_square_error.status # "ok" THEN mean_square_error
    ELSE Broadcast(mean_square_error.shape, kl_divergence.shape)

\* lines 63-68 on the outcome e of encode
LossOfEncoding(p, x, e) ==
    IF e.status # "ok" THEN Err(e.status)
    ELSE Combined(KLDivergence(e.mean, e.stddev),
                  Reconstruction(p, x, SampleEncoding(e.mean, e.stddev)))

\* lines 61-68: the shape of the tensor loss returns
Loss(p, x) == LossOfEncoding(p, x, Encode(p, x))

\* ------------------------------------------------ calls of the pure methods
NoRet == [op |-> "none", args |-> <<>>, status |-> "none", shapes |-> <<>>]

\* argument shapes tried: (batch, width) with the width right or wrong
ArgShapes ==
    {<<b, w>> : b \in 1..MaxRows,
                w \in {d \in {input_dim, code_dim, code_dim + 1} : d >= 0}}

\* the arguments main() passes: one example (lines 123-132)
MainArgShapes == {<<1, input_dim>>, <<1, code_dim>>}

\* a method is called on a constructed model, outside train
Callable == status = "constructed" /\ pc = "idle"

\* what the caller gets: the shapes returned, or the exception
Returned(op, args, r) ==
    [op |-> op, args |-> args, status |-> r.status,
     shapes |-> IF r.status = "ok" THEN <<r.shape>> ELSE <<>>]

ReturnedPair(op, args, r) ==
    [op |-> op, args |-> args, status |-> r.status,
     shapes |-> IF r.status = "ok" THEN <<r.mean, r.stddev>> ELSE <<>>]

CallEncode(Shapes) ==
    /\ Callable
    /\ \E x \in Shapes : ret' = ReturnedPair("encode", <<x>>, Encode(params, x))
    /\ UNCHANGED <<modelVars, trainVars>>

CallSampleEncoding(Shapes) ==
    /\ Callable
    /\ \E mean \in Shapes, stddev \in Shapes :
         ret' = Returned("sample_encoding", <<mean, stddev>>,
                         SampleEncoding(mean, stddev))
    /\ UNCHANGED <<modelVars, trainVars>>

CallDecode(Shapes) ==
    /\ Callable
    /\ \E z \in Shapes : ret' = Returned("decode", <<z>>, Decode(params, z))
    /\ UNCHANGED <<modelVars, trainVars>>

CallLoss(Shapes) ==
    /\ Callable
    /\ \E x \in Shapes : ret' = Returned("loss", <<x>>, Loss(params, x))
    /\ UNCHANGED <<modelVars, trainVars>>

\* ---------------------------------------------------------------- __init__
Construct ==
    /\ status = "unconstructed"
    /\ LET o == ConstructOutcome(input_dim, code_dim)
       IN  /\ status' = o.status
           /\ params' = o.params
    /\ UNCHANGED <<input_dim, code_dim, ret, trainVars>>

\* ------------------------------------------------------------------- train
\* values a loss element can take: NaN, or a finite number
LossXs == {32, 33, 34}
NaNVal == [nan |-> TRUE, x |-> 0]
LossVals == {NaNVal} \cup {[nan |-> FALSE, x |-> n] : n \in LossXs}

NoLoss == [status |-> "none", shape |-> <<>>, val |-> [nan |-> FALSE, x |-> 0],
           rows |-> 0, after_steps |-> 0]
NoReport == [epoch_num |-> 0, num_epochs |-> 0, train_loss |-> NoLoss,
             val_loss |-> NoLoss]

\* self.loss(x) during train: a tensor of the shape the pipeline gives,
\* every element of value v, computed from the x[1] rows of x with the
\* parameters as they are after p's optimizer steps
LossTensor(p, x, r, v) ==
    [status |-> r.status, shape |-> r.shape, val |-> v, rows |-> x[1],
     after_steps |-> p["enc_W0"].updates]

\* line 78 with the quotient rounded up
NumBatchesRoundedUp(n, b) == TruncDiv(n + b - 1, b)

\* line 78: range(int(inputs.shape[0] / batch_size))
NumBatches(n, b) == TruncDiv(n, b)

\* line 79: inputs[batch_num * batch_size: batch_num * batch_size + batch_size]
BatchRows(n, k, b) == SliceRows(n, k * b, k * b + b)

\* line 74 applied to the six weight matrices only
ApplyGradientsWeightsOnly(p) ==
    [k \in DOMAIN p |->
        IF k \in {"enc_b0", "enc_b1", "enc_b2", "dec_b0", "dec_b1", "dec_b2"}
        THEN p[k]
        ELSE [p[k] EXCEPT !.updates = @ + 1]]

\* line 74: optimizer.apply_gradients over every key of grads
ApplyGradients(p) ==
    [k \in DOMAIN p |-> [p[k] EXCEPT !.updates = @ + 1]]

\* val_loss - train_loss > train_loss / 32 on two one-element tensors; a
\* comparison with NaN is false. With finite a, b: b - a > a / 32.
Exceeds(a, b) ==
    /\ ~a.nan
    /\ ~b.nan
    /\ DivergenceDivisor * (b.x - a.x) > a.x

\* the truth value of a comparison whose broadcast outcome is cmp
TruthValue(cmp, a, b) ==
    IF cmp.status # "ok" THEN cmp.status
    ELSE IF ~HasOneElement(cmp.shape) THEN "ValueError"
    ELSE IF Exceeds(a, b) THEN "true" ELSE "false"

\* the comparison of a difference of outcome diff with train_loss / 32
Compared(diff, tl, vl) ==
    IF diff.status # "ok" THEN diff.status
    ELSE TruthValue(Broadcast(diff.shape, tl.shape), tl.val, vl.val)

\* line 85 with the epoch threshold one higher
StopConditionOneEpochLate(e, tl, vl) ==
    IF ~(e > EarlyStopAfter + 1) THEN "false"
    ELSE Compared(Broadcast(vl.shape, tl.shape), tl, vl)

\* line 85: the outcome of evaluating the `if` condition: "true", "false", or
\* the exception raised while evaluating it; `and` does not evaluate its
\* right operand when the left one is false
StopCondition(e, tl, vl) ==
    IF ~(e > EarlyStopAfter) THEN "false"
    ELSE Compared(Broadcast(vl.shape, tl.shape), tl, vl)

\* lines 85-87: where train goes after the condition's outcome c
AfterCheck(c) ==
    CASE c = "true" -> "stopped"
      [] c = "false" -> "epoch"
      [] OTHER -> "raised"

Train ==
    /\ status = "constructed"
    /\ pc = "idle"
    /\ pc' = "epoch"
    /\ ret' = NoRet
    /\ UNCHANGED <<modelVars, inputs, val_inputs, num_epochs, batch_size,
                   epoch_num, batch_num, batches, steps, train_loss, val_loss,
                   reports, last_report, nan_seen>>

\* line 77: the next value of range(1, num_epochs + 1)
NextEpoch ==
    /\ pc = "epoch"
    /\ epoch_num < num_epochs
    /\ epoch_num' = epoch_num + 1
    /\ batch_num' = 0
    /\ batches' = <<>>
    /\ pc' = "batch"
    /\ UNCHANGED <<modelVars, ret, inputs, val_inputs, num_epochs, batch_size,
                   steps, train_loss, val_loss, reports, last_report, nan_seen>>

\* line 77: the range is exhausted
Complete ==
    /\ pc = "epoch"
    /\ ~(epoch_num < num_epochs)
    /\ pc' = "completed"
    /\ UNCHANGED <<modelVars, ret, inputs, val_inputs, num_epochs, batch_size,
                   epoch_num, batch_num, batches, steps, train_loss, val_loss,
                   reports, last_report, nan_seen>>

\* lines 71-74 of _training_step on a batch whose loss has outcome r
StepOn(rows, r) ==
    IF r.status # "ok"
    THEN /\ pc' = "raised"
         /\ UNCHANGED <<params, batch_num, batches, steps, nan_seen>>
    ELSE \E v \in LossVals :
           /\ params' = ApplyGradients(params)
           /\ steps' = steps + 1
           /\ batches' = Append(batches, rows)
           /\ batch_num' = batch_num + 1
           /\ nan_seen' = (nan_seen \/ v.nan)
           /\ pc' = "batch"

\* the shape of inputs[lo:hi]
BatchShape(rows, x) == <<rows[2] - rows[1], x[2]>>

\* lines 78-80 and 70-74: one batch, one _training_step
TrainingStep ==
    /\ pc = "batch"
    /\ batch_num < NumBatches(inputs[1], batch_size)
    /\ StepOn(BatchRows(inputs[1], batch_num, batch_size),
              Loss(params, BatchShape(BatchRows(inputs[1], batch_num, batch_size),
                                      inputs)))
    /\ UNCHANGED <<input_dim, code_dim, status, ret, inputs, val_inputs,
                   num_epochs, batch_size, epoch_num, train_loss, val_loss,
                   reports, last_report>>

\* lines 81-82 evaluated on the rows that were batched only
EvalInputsBatchedRowsOnly(x) == <<x[1] - (x[1] % batch_size), x[2]>>

\* the tensor a loss evaluation at the end of an epoch is computed from
EvalInputs(x) == x

\* lines 81-84 with the outcomes tr, vr of the two loss computations
ReportOn(x, vx, tr, vr) ==
    IF tr.status # "ok" \/ vr.status # "ok"
    THEN /\ pc' = "raised"
         /\ UNCHANGED <<train_loss, val_loss, reports, last_report, nan_seen>>
    ELSE \E tv \in LossVals, vv \in LossVals :
           /\ train_loss' = LossTensor(params, x, tr, tv)
           /\ val_loss' = LossTensor(params, vx, vr, vv)
           /\ reports' = reports + 1
           /\ last_report' = [epoch_num |-> epoch_num, num_epochs |-> num_epochs,
                               train_loss |-> train_loss', val_loss |-> val_loss']
           /\ nan_seen' = (nan_seen \/ tv.nan \/ vv.nan)
           /\ pc' = "check"

\* lines 81-84: both losses, then the report
EvalAndReport ==
    /\ pc = "batch"
    /\ ~(batch_num < NumBatches(inputs[1], batch_size))
    /\ ReportOn(EvalInputs(inputs), EvalInputs(val_inputs),
                Loss(params, EvalInputs(inputs)),
                Loss(params, EvalInputs(val_inputs)))
    /\ UNCHANGED <<modelVars, ret, inputs, val_inputs, num_epochs, batch_size,
                   epoch_num, batch_num, batches, steps>>

\* lines 85-87
EarlyStopCheck ==
    /\ pc = "check"
    /\ pc' = AfterCheck(StopCondition(epoch_num, train_loss, val_loss))
    /\ UNCHANGED <<modelVars, ret, inputs, val_inputs, num_epochs, batch_size,
                   epoch_num, batch_num, batches, steps, train_loss, val_loss,
                   reports, last_report, nan_seen>>

\* ---------------------------------------------------------- specifications
TrainIdle ==
    /\ pc = "idle"
    /\ epoch_num = 0
    /\ batch_num = 0
    /\ batches = <<>>
    /\ steps = 0
    /\ train_loss = NoLoss
    /\ val_loss = NoLoss
    /\ reports = 0
    /\ last_report = NoReport
    /\ nan_seen = FALSE

\* the numbers of epochs tried: none, one, and those around the threshold
EpochCounts == {0, 1} \cup (EarlyStopAfter..MaxEpochs)

\* the model main() constructs (lines 110-111), and a call of train
Init ==
    /\ input_dim = MainInputDim
    /\ code_dim = MainCodeDim
    /\ status = ConstructOutcome(MainInputDim, MainCodeDim).status
    /\ params = ConstructOutcome(MainInputDim, MainCodeDim).params
    /\ ret = NoRet
    /\ inputs \in {<<n, MainInputDim>> : n \in 1..MaxRows}
    /\ val_inputs \in {<<m, MainInputDim>> : m \in 1..MaxValRows}
    /\ num_epochs \in EpochCounts
    /\ batch_size \in 1..MaxBatch
    /\ TrainIdle

Next ==
    \/ Train
    \/ NextEpoch
    \/ TrainingStep
    \/ EvalAndReport
    \/ EarlyStopCheck
    \/ Complete
    \/ CallEncode(MainArgShapes)
    \/ CallSampleEncoding(MainArgShapes)
    \/ CallDecode(MainArgShapes)
    \/ CallLoss(MainArgShapes)

Spec == Init /\ [][Next]_vars

\* construction from arbitrary arguments, then calls of the pure methods
InitModel ==
    /\ input_dim \in MinDim..MaxDim
    /\ code_dim \in MinDim..MaxDim
    /\ status = "unconstructed"
    /\ params = NoParams
    /\ ret = NoRet
    /\ inputs = <<1, 1>>
    /\ val_inputs = <<1, 1>>
    /\ num_epochs = 0
    /\ batch_size = 1
    /\ TrainIdle

NextModel ==
    \/ Construct
    \/ CallEncode(ArgShapes)
    \/ CallSampleEncoding(ArgShapes)
    \/ CallDecode(ArgShapes)
    \/ CallLoss(ArgShapes)

SpecModel == InitModel /\ [][NextModel]_vars

\* ------------------------------------------------------------------ claims
Shape(k) == params[k].shape

\* C3: constructing with code_dim >= input_dim fails with the assertion
\* before any parameter exists; with code_dim < input_dim the assertion
\* does not fail.
C3_ConstructionAssertion ==
    status # "unconstructed" =>
        /\ code_dim >= input_dim => (status = "AssertionError" /\ DOMAIN params = {})
        /\ code_dim < input_dim => status # "AssertionError"

C3_Witness ==
    /\ status = "AssertionError"
    /\ code_dim = input_dim
    /\ DOMAIN params = {}

\* C4 as claimed: loss returns a single scalar, a tensor without any axis,
\* whatever the batch size and code_dim.
C4_LossIsScalar ==
    (ret.op = "loss" /\ ret.status = "ok" /\ code_dim > 0) => ret.shapes = << <<>> >>

\* C5 as claimed: for input_dim > code_dim > 0 the hidden sizes equal
\* input_dim - (input_dim - code_dim)/4 and
\* input_dim - 3*(input_dim - code_dim)/4 exactly.
C5_ExactInterpolation ==
    (status # "unconstructed" /\ input_dim > code_dim /\ code_dim > 0) =>
        /\ status = "constructed"
        /\ 4 * Shape("enc_W0")[1] = 4 * input_dim - (input_dim - code_dim)
        /\ 4 * Shape("enc_W1")[1] = 4 * input_dim - 3 * (input_dim - code_dim)

\* C5 amended: for input_dim > code_dim > 0 construction succeeds, the
\* hidden sizes are the interpolation formulas' values rounded down to an
\* integer, the 12 tensors have the declared shapes over these sizes, and
\* the encoder's output is 2*code_dim wide.
C5_TruncatedInterpolation ==
    (status # "unconstructed" /\ input_dim > code_dim /\ code_dim > 0) =>
        /\ status = "constructed"
        /\ DOMAIN params = ParamKeys
        /\ LET h1 == Shape("enc_W0")[1]
               h2 == Shape("enc_W1")[1]
           IN  /\ 4 * h1 <= 4 * input_dim - (input_dim - code_dim)
               /\ 4 * input_dim - (input_dim - code_dim) < 4 * h1 + 4
               /\ 4 * h2 <= 4 * input_dim - 3 * (input_dim - code_dim)
               /\ 4 * input_dim - 3 * (input_dim - code_dim) < 4 * h2 + 4
               /\ Shape("enc_W0") = <<h1, input_dim>>
               /\ Shape("enc_W1") = <<h2, h1>>
               /\ Shape("enc_W2") = <<2 * code_dim, h2>>
               /\ Shape("dec_W0") = <<h2, code_dim>>
               /\ Shape("dec_W1") = <<h1, h2>>
               /\ Shape("dec_W2") = <<input_dim, h1>>
               /\ \A l \in {"enc_", "dec_"}, n \in {"0", "1", "2"} :
                     Shape(l \o "b" \o n) = <<Shape(l \o "W" \o n)[1], 1>>
        /\ (ret.op = "encode" /\ ret.status = "ok") =>
              ret.shapes[1][2] + ret.shapes[2][2] = 2 * code_dim

C5_Witness ==
    /\ status = "constructed"
    /\ code_dim > 0
    /\ (input_dim - code_dim) % 4 # 0
    /\ ret.op = "encode"
    /\ ret.status = "ok"

\* C7: sample_encoding fails with the assertion, returning nothing, when the
\* shapes of mean and stddev differ, and returns a tensor of their shape
\* when they are equal.
C7_SampleEncodingShapes ==
    ret.op = "sample_encoding" =>
        /\ ret.args[1] # ret.args[2] =>
              (ret.status = "AssertionError" /\ ret.shapes = <<>>)
        /\ ret.args[1] = ret.args[2] =>
              (ret.status = "ok" /\ ret.shapes = <<ret.args[1]>>)

C7_Witness ==
    /\ ret.op = "sample_encoding"
    /\ ret.args[1][1] = ret.args[2][1]
    /\ ret.args[1][2] # ret.args[2][2]
    /\ ret.status = "AssertionError"

\* ----------------------------------------------------------- train claims
N == inputs[1]
M == val_inputs[1]
Running == pc \in {"epoch", "batch", "check"}
Diverged(r) == Exceeds(r.train_loss.val, r.val_loss.val)

\* C1: once the report of an epoch e > 15 shows
\* validation_loss - training_loss > training_loss / 32, train performs no
\* further training step, prints no further report and starts no epoch e+1.
C1_EarlyStopHalts ==
    [][(/\ reports > 0
        /\ last_report.epoch_num > 15
        /\ Diverged(last_report))
       => /\ steps' = steps
          /\ reports' = reports
          /\ epoch_num' = epoch_num
          /\ pc' \notin {"epoch", "batch"}]_vars

C1_Witness ==
    /\ pc = "stopped"
    /\ epoch_num = 16
    /\ num_epochs >= 17
    /\ reports = 16
    /\ Diverged(last_report)

\* C2: the batches of an epoch are the contiguous row intervals
\* [k*B, k*B + B), k = 0 .. floor(N/B) - 1, in this order, every one of B
\* rows, each trained on by one optimizer step; the trailing N mod B rows
\* belong to no batch.
C2_ContiguousFullBatches ==
    /\ \A k \in 1..Len(batches) :
          /\ batches[k] = <<(k - 1) * batch_size, (k - 1) * batch_size + batch_size>>
          /\ batches[k][2] <= N - (N % batch_size)
    /\ batch_size * Len(batches) <= N
    /\ (epoch_num >= 1 /\ pc # "batch") => N < batch_size * (Len(batches) + 1)
    /\ epoch_num >= 1 => steps = (epoch_num - 1) * (N \div batch_size) + Len(batches)

C2_Witness ==
    /\ pc = "check"
    /\ epoch_num = 2
    /\ N % batch_size # 0
    /\ Len(batches) >= 1

\* C6 as claimed: once a loss computed during train was NaN, train performs
\* no further training step, prints no further report and starts no further
\* epoch.
C6_NaNLossStopsTraining ==
    [][nan_seen => /\ steps' = steps
                   /\ reports' = reports
                   /\ epoch_num' = epoch_num]_vars

\* C8 as claimed: train ends either Completed after exactly num_epochs
\* epochs, or StoppedEarly after an epoch e in 16..num_epochs whose losses
\* diverged, and in no other way.
C8_CompletedOrStoppedEarly ==
    /\ (pc # "idle" /\ ~Running) => pc \in {"completed", "stopped"}
    /\ pc = "completed" => (epoch_num = num_epochs /\ reports = num_epochs)
    /\ pc = "stopped" =>
          /\ epoch_num > 15
          /\ epoch_num <= num_epochs
          /\ reports = epoch_num
          /\ Diverged(last_report)

\* C9: one report per epoch run, numbered 1, 2, ... without gaps, printed
\* after all the epoch's training steps and before the next epoch's, its
\* losses computed from all rows of the training set and of the validation
\* set with the parameters as the epoch's last optimizer step left them.
C9_OneReportPerEpoch ==
    /\ reports = IF pc = "batch" THEN epoch_num - 1 ELSE epoch_num
    /\ steps = reports * (N \div batch_size) + (IF pc = "batch" THEN batch_num ELSE 0)
    /\ reports > 0 =>
          /\ last_report.epoch_num = reports
          /\ last_report.num_epochs = num_epochs
          /\ last_report.train_loss.rows = N
          /\ last_report.val_loss.rows = M
          /\ last_report.train_loss.after_steps = reports * (N \div batch_size)
          /\ last_report.val_loss.after_steps = reports * (N \div batch_size)

C9_Witness ==
    /\ pc = "check"
    /\ reports = 2
    /\ N > batch_size
    /\ N % batch_size # 0

\* C10: the parameters change only in a training step, which updates each
\* of the 12 exactly once; the pure methods, the end-of-epoch evaluation and
\* the early-stopping check leave them as they are, so a training set
\* smaller than the batch size leaves them as constructed.
C10_OnlyTrainingStepsUpdate ==
    /\ [](N < batch_size => params = FreshParams(input_dim, code_dim))
    /\ [][/\ params' # params => (pc = "batch" /\ steps' = steps + 1)
          /\ steps' # steps =>
                /\ DOMAIN params' = ParamKeys
                /\ \A k \in ParamKeys :
                      /\ params'[k].updates = params[k].updates + 1
                      /\ params'[k].shape = params[k].shape]_vars

C10_Witness ==
    /\ pc = "completed"
    /\ N < batch_size
    /\ reports >= 1
    /\ steps = 0
    /\ params = FreshParams(input_dim, code_dim)

====
